---- MODULE Spec2Model ----
(***************************************************************************)
(* CHEB-PLACE API (src/main.py): places, moderated reviews with photos,    *)
(* events, photo gallery and visitor feedback behind a FastAPI surface,    *)
(* stored in one SQLite database and a static media directory.             *)
(*                                                                         *)
(* The committed tables are the state every request sees.  The two async   *)
(* handlers that await an upload (create_review, upload_gallery_photo) are *)
(* request processes whose uncommitted session rows live in proc[p] until  *)
(* their commit; the sync handlers run one SELECT and one transaction and  *)
(* are single steps.  SQLite allows one write transaction at a time: it    *)
(* is held from a session's first INSERT/UPDATE/DELETE (flush) up to its   *)
(* commit or rollback (lock).                                              *)
(***************************************************************************)
EXTENDS Integers, Sequences, FiniteSets, TLC

VARIABLES
    places,            \* table places
    reviews,           \* table reviews
    review_photos,     \* table review_photos
    events,            \* table events
    gallery_sections,  \* table gallery_sections
    gallery_photos,    \* table gallery_photos
    feedback,          \* table feedback
    media,             \* files under STATIC_DIR: path -> bytes
    lock,              \* the request process holding SQLite's write lock, 0 = free
    proc,              \* the in-flight async requests
    now,               \* the clock behind utcnow() and func.now()
    resp               \* the response sent by the last step, NoResp when it sent none

db == <<places, reviews, review_photos, events, gallery_sections, gallery_photos, feedback>>
vars == <<places, reviews, review_photos, events, gallery_sections, gallery_photos,
          feedback, media, lock, proc, now, resp>>

(***************************************************************************)
(* Bounds of the model.                                                    *)
(***************************************************************************)
\* request processes that can be in flight together
NumProcs == 2
\* rows of places
MaxPlaces == 1
\* rows of reviews, committed or in flight
MaxReviews == 2
\* rows of events
MaxEvents == 1
\* rows of gallery_sections, committed or in flight
MaxSections == 2
\* rows of gallery_photos, committed or in flight
MaxGalleryPhotos == 2
\* rows of feedback
MaxFeedback == 1
\* rows of all tables but review_photos together, when every kind of request is served
MaxRows == 2
\* ticks of the clock
MaxClock == 1
\* files in the review_photos directory
MaxReviewFiles == 3
\* files in the gallery_photos directory
MaxGalleryFiles == 2

Procs == 1..NumProcs

(***************************************************************************)
(* Program constants.                                                      *)
(***************************************************************************)
ADMIN_API_KEY == "change-me-admin-key"
RatingMin == 1
RatingMax == 5
MaxPhotos == 5
ShortInfoMaxLen == 255

\* Optional[T]: None is <<>>, a value v is <<v>>.
None == <<>>
Some(v) == <<v>>

Max(S) == CHOOSE x \in S : \A y \in S : y <= x
Min(S) == CHOOSE x \in S : \A y \in S : x <= y

\* (mutant) every new row takes the first key
FirstId(table) == 1

\* Integer primary key of a new row: SQLite's rowid, one above the largest present.
\* (The keys of a table the model lets grow and shrink stay within its ...Ids set.)
NextId(table) == IF table = {} THEN 1 ELSE Max({r.id : r \in table}) + 1

\* (mutant) a lookup that does not filter on the id
AnyRow(table, id) == table

\* query(...).filter(X.id == id).first()
ById(table, id) == {r \in table : r.id = id}

pending == "pending"
approved == "approved"
ReviewStatus == {pending, approved}

(***************************************************************************)
(* Paths, file names and URLs.  A generated file name                      *)
(* f"review_{id}_{timestamp}{ext}" is the tuple of its parts; a path puts  *)
(* the directory in front, a URL puts the /static mount in front of that.  *)
(***************************************************************************)
REVIEW_PHOTOS_DIR == "review_photos"
GALLERY_PHOTOS_DIR == "gallery_photos"
StaticMount == "/static"

\* Path(name).suffix: from the last dot of the name, unless that dot leads or ends it.
Suffix(name) ==
    LET dots == {i \in 1..Len(name) : name[i] = "."}
    IN  IF dots = {} THEN <<>>
        ELSE LET i == Max(dots)
             IN  IF 1 < i /\ i < Len(name) THEN SubSeq(name, i, Len(name)) ELSE <<>>

\* Path(filename or "").suffix or ".jpg"
ExtOf(filename) == IF Suffix(filename) = <<>> THEN <<".", "j", "p", "g">> ELSE Suffix(filename)

ReviewFilename(review_id, ts, ext) == <<"review", review_id, ts, ext>>
GalleryFilename(section_id, ts, ext) == <<"gallery", section_id, ts, ext>>
FilePath(dir, filename) == <<dir>> \o filename
StaticUrl(dir, filename) == <<StaticMount, dir>> \o filename

\* (mutant) the file is never written
write_nothing(fs, path, content) == fs

\* file_path.write_bytes(content): creates the file or replaces its bytes.
write_bytes(fs, path, content) ==
    [x \in DOMAIN fs \cup {path} |-> IF x = path THEN content ELSE fs[x]]

\* room for the file at path in its directory, which holds at most max files
HasRoom(fs, path, max) ==
    path \in DOMAIN fs \/ Cardinality({x \in DOMAIN fs : x[1] = path[1]}) < max

\* The file a URL under the static mount is served from, if it is there.
UrlHasFile(fs, url) ==
    /\ Len(url) > 1
    /\ url[1] = StaticMount
    /\ Tail(url) \in DOMAIN fs

(***************************************************************************)
(* Responses.                                                              *)
(***************************************************************************)
NoArgs == [none |-> TRUE]
NoResp == [op |-> "-", key |-> None, args |-> NoArgs, code |-> 0, out |-> {}]
Response(op, key, args, code, out) ==
    [op |-> op, key |-> key, args |-> args, code |-> code, out |-> out]

Idle == [pc |-> "idle"]
\* A new async request runs in the first free slot.
FreeSlot(p) == proc[p] = Idle /\ \A q \in Procs : proc[q] = Idle => p <= q

\* rows of every table but review_photos, with the rows sessions hold uncommitted
PendingReviews == {proc[p].review : p \in {q \in Procs : proc[q].pc = "cr_photos"}}
PendingSections ==
    {proc[p].section : p \in {q \in Procs : proc[q].pc = "up_write" /\ proc[q].created}}
PendingUploads == {p \in Procs : proc[p].pc \in {"up_flush", "up_write"}}
Rows ==
    Cardinality(places) + Cardinality(reviews) + Cardinality(events)
    + Cardinality(gallery_sections) + Cardinality(gallery_photos) + Cardinality(feedback)
    + Cardinality(PendingReviews) + Cardinality(PendingSections)
    + Cardinality(PendingUploads)

Init ==
    /\ places = {}
    /\ reviews = {}
    /\ review_photos = {}
    /\ events = {}
    /\ gallery_sections = {}
    /\ gallery_photos = {}
    /\ feedback = {}
    /\ media = <<>>
    /\ lock = 0
    /\ proc = [p \in Procs |-> Idle]
    /\ now = 0
    /\ resp = NoResp

(***************************************************************************)
(* The admin dependency.                                                   *)
(***************************************************************************)
Keys == {None, Some("guess"), Some(ADMIN_API_KEY)}

\* (mutant) a request without the header passes
require_admin_unless_missing(api_key) == api_key = None \/ api_key = Some(ADMIN_API_KEY)
\* (mutant) any key passes
require_admin_any_key(api_key) == api_key # None

\* require_admin: TRUE when the request passes, FALSE when it raises 401.
require_admin(api_key) == ~(api_key # Some(ADMIN_API_KEY))

\* A response is on the wire for one step: the caller takes it, and the server's
\* next step starts from there.
Ready == resp = NoResp
deliver ==
    /\ resp # NoResp
    /\ resp' = NoResp
    /\ UNCHANGED <<db, media, lock, proc, now>>

\* The clock moves between any two steps.
Tick ==
    /\ now < MaxClock
    /\ Ready
    /\ now' = now + 1
    /\ resp' = NoResp
    /\ UNCHANGED <<db, media, lock, proc>>


Reply(op, key, args, code, out) == resp' = Response(op, key, args, code, out)

\* A request that is answered without a write: nothing but the response changes.
Answer(op, key, args, code, out) ==
    /\ Reply(op, key, args, code, out)
    /\ UNCHANGED <<db, media, lock, proc, now>>

\* HTTPException(status_code=401) out of the require_admin dependency, raised
\* before the request's body and path are looked at
Unauthorized(op, key) == Answer(op, key, NoArgs, 401, {})

(***************************************************************************)
(* Places.                                                                 *)
(***************************************************************************)
PlaceCreate ==
    {[name |-> "Park", category |-> "park", lat |-> "56.13", lng |-> "47.25",
      description |-> None]}
PlaceIds == 1..(MaxPlaces + 1)

\* GET /places
list_places == Answer("list_places", None, NoArgs, 200, places)

\* POST /admin/places
admin_create_place(key, payload) ==
    LET place == [id |-> NextId(places)] @@ payload
    IN  IF ~require_admin(key) THEN Unauthorized("admin_create_place", key)
        ELSE IF lock # 0 THEN Answer("admin_create_place", key, payload, 500, {})
        ELSE /\ Cardinality(places) < MaxPlaces
             /\ places' = places \cup {place}
             /\ Reply("admin_create_place", key, payload, 200, {place})
             /\ UNCHANGED <<reviews, review_photos, events, gallery_sections,
                            gallery_photos, feedback, media, lock, proc, now>>

(***************************************************************************)
(* Reviews.                                                                *)
(***************************************************************************)
Photo1 == [filename |-> <<"a", ".", "p">>, content |-> "A"]
Photo2 == [filename |-> <<"b">>, content |-> "B"]
Repeat(f, n) == [i \in 1..n |-> f]
\* the files of a submission: none, one, two, the most allowed, one too many
FileLists ==
    {<<>>, <<Photo1>>, <<Photo1, Photo2>>, Repeat(Photo1, MaxPhotos),
     Repeat(Photo1, MaxPhotos + 1)}
Ratings == {RatingMin - 1, RatingMin, RatingMax, RatingMax + 1}
Texts == {"", "Great spot"}
ReviewForms ==
    [place_id : PlaceIds, author_name : {None}, rating : Ratings, text : Texts,
     files : FileLists]

\* (mutant) the lower limit is missing
RatingValidUpper(rating) == rating <= RatingMax

\* rating: int = Form(..., ge=1, le=5)
RatingValid(rating) == RatingMin <= rating /\ rating <= RatingMax
\* (mutant) an empty text is taken as a text
TextAlwaysValid(text) == TRUE

\* text: str = Form(...): a form field sent empty counts as not sent
TextValid(text) == text # ""

\* len(file_list) > 5
TooManyPhotosOffByOne(file_list) == Len(file_list) > MaxPhotos + 1
TooManyPhotos(file_list) == Len(file_list) > MaxPhotos

\* (mutant) a review is born approved
NewReviewApproved(id, form, ts) ==
    [id |-> id, place_id |-> form.place_id, author_name |-> form.author_name,
     rating |-> form.rating, text |-> form.text, status |-> approved, created_at |-> ts]

\* Review(place_id=..., author_name=..., rating=..., text=..., status=pending),
\* created_at by the server default func.now() of its INSERT
NewReview(id, form, ts) ==
    [id |-> id, place_id |-> form.place_id, author_name |-> form.author_name,
     rating |-> form.rating, text |-> form.text, status |-> pending, created_at |-> ts]

PhotosOf(review_id) == {ph \in review_photos : ph.review_id = review_id}

\* POST /reviews up to db.flush(): the review row is inserted, not committed
create_review(p, form) ==
    LET file_list == form.files
    IN  /\ FreeSlot(p)
        /\ IF ~RatingValid(form.rating) \/ ~TextValid(form.text)
           THEN Answer("create_review", None, form, 422, {})
           ELSE IF ById(places, form.place_id) = {}
           THEN Answer("create_review", None, form, 404, {})
           ELSE IF TooManyPhotos(file_list)
           THEN Answer("create_review", None, form, 400, {})
           ELSE IF lock # 0
           THEN Answer("create_review", None, form, 500, {})
           ELSE /\ Cardinality(reviews) < MaxReviews
                /\ proc' = [proc EXCEPT ![p] =
                       [pc |-> "cr_photos", req |-> form,
                        review |-> NewReview(NextId(reviews), form, now),
                        left |-> file_list, photos |-> <<>>]]
                /\ lock' = p
                /\ resp' = NoResp
                /\ UNCHANGED <<db, media, now>>

\* One turn of the loop over file_list: read the upload, write the file, add the
\* photo to the session.  A failed read or write raises: get_db closes the
\* session, which rolls the transaction back.
create_review_photo(p) ==
    /\ proc[p].pc = "cr_photos"
    /\ proc[p].left # <<>>
    /\ LET uploaded == Head(proc[p].left)
           ext == ExtOf(uploaded.filename)
           filename == ReviewFilename(proc[p].review.id, now, ext)
       IN  \/ /\ HasRoom(media, FilePath(REVIEW_PHOTOS_DIR, filename), MaxReviewFiles)
              /\ media' = write_bytes(media, FilePath(REVIEW_PHOTOS_DIR, filename),
                                      uploaded.content)
              /\ proc' = [proc EXCEPT ![p].left = Tail(@),
                                      ![p].photos =
                                          Append(@, StaticUrl(REVIEW_PHOTOS_DIR, filename))]
              /\ resp' = NoResp
              /\ UNCHANGED <<db, lock, now>>
           \/ /\ proc' = [proc EXCEPT ![p] = Idle]
              /\ lock' = 0
              /\ Reply("create_review", None, proc[p].req, 500, {})
              /\ UNCHANGED <<db, media, now>>

\* (mutant) only the first photo of a submission is committed
FirstReviewPhotoOnly(review_id, urls) ==
    {[id |-> NextId(review_photos) + i - 1, review_id |-> review_id, url |-> urls[i]] :
        i \in 1..(IF Len(urls) > 1 THEN 1 ELSE Len(urls))}

\* the ReviewPhoto rows the commit inserts, in the order they were added
NewReviewPhotos(review_id, urls) ==
    {[id |-> NextId(review_photos) + i - 1, review_id |-> review_id, url |-> urls[i]] :
        i \in 1..Len(urls)}

\* db.commit(); db.refresh(review); return {"id", "status"}
create_review_commit(p) ==
    /\ proc[p].pc = "cr_photos"
    /\ proc[p].left = <<>>
    /\ reviews' = reviews \cup {proc[p].review}
    /\ review_photos' =
           review_photos \cup NewReviewPhotos(proc[p].review.id, proc[p].photos)
    /\ lock' = 0
    /\ proc' = [proc EXCEPT ![p] = Idle]
    /\ Reply("create_review", None, proc[p].req, 201,
             {[id |-> proc[p].review.id, status |-> proc[p].review.status]})
    /\ UNCHANGED <<places, events, gallery_sections, gallery_photos, feedback, media, now>>

\* ReviewOut: the row without its status, with its photos
ReviewOut(r) ==
    [id |-> r.id, place_id |-> r.place_id, author_name |-> r.author_name,
     rating |-> r.rating, text |-> r.text, created_at |-> r.created_at,
     photos |-> {[id |-> ph.id, url |-> ph.url] : ph \in PhotosOf(r.id)}]

\* (mutant) the status filter is missing
ReviewsOfPlace(place_id) == {r \in reviews : r.place_id = place_id}

\* filter(Review.place_id == place_id, Review.status == approved)
ApprovedReviewsOf(place_id) ==
    {r \in reviews : r.place_id = place_id /\ r.status = approved}

\* GET /reviews?place_id=
list_reviews(place_id) ==
    Answer("list_reviews", None, [place_id |-> place_id], 200,
           {ReviewOut(r) : r \in ApprovedReviewsOf(place_id)})

\* filter(Review.status == pending)
PendingReviewRows == {r \in reviews : r.status = pending}

\* GET /admin/reviews/pending
admin_list_pending_reviews(key) ==
    IF ~require_admin(key) THEN Unauthorized("admin_list_pending_reviews", key)
    ELSE Answer("admin_list_pending_reviews", key, NoArgs, 200,
                {ReviewOut(r) : r \in PendingReviewRows})

\* (mutant) approving an approved review takes the approval back
ToggleStatus(review) ==
    [review EXCEPT !.status = IF @ = approved THEN pending ELSE approved]

\* (mutant) the approval is not stored
LeaveStatus(review) == review

\* (mutant) the approval also blanks the text
ApproveBlanked(review) == [review EXCEPT !.status = approved, !.text = ""]

\* review.status = ReviewStatus.approved
Approve(review) == [review EXCEPT !.status = approved]

ReviewIds == 1..(MaxReviews + 1)

\* POST /admin/reviews/{review_id}/approve
admin_approve_review(key, review_id) ==
    LET args == [review_id |-> review_id]
        found == ById(reviews, review_id)
    IN  IF ~require_admin(key) THEN Unauthorized("admin_approve_review", key)
        ELSE IF found = {} THEN Answer("admin_approve_review", key, args, 404, {})
        ELSE IF lock # 0 THEN Answer("admin_approve_review", key, args, 500, {})
        ELSE LET review == CHOOSE r \in found : TRUE
             IN  /\ reviews' = (reviews \ {review}) \cup {Approve(review)}
                 /\ Reply("admin_approve_review", key, args, 200,
                          {[id |-> review.id, status |-> Approve(review).status]})
                 /\ UNCHANGED <<places, review_photos, events, gallery_sections,
                                gallery_photos, feedback, media, lock, proc, now>>


(***************************************************************************)
(* Events.                                                                 *)
(***************************************************************************)
\* short_info values: one line, and with a line feed or a carriage return in it
ShortInfos == {<<"o", "k">>, <<"o", "\n", "k">>, <<"\r", "o">>}
EventCreate ==
    [title : {"Fest", "Expo"}, date : {1}, short_info : ShortInfos, cover_url : {None}]
EventIds == 1..(MaxEvents + 1)

\* (mutant) a validator that looks for the line feed only
validate_short_info_lf_only(v) ==
    /\ Len(v) <= ShortInfoMaxLen
    /\ ~(\E i \in 1..Len(v) : v[i] = "\n")

\* Field(..., max_length=255) and the validator validate_short_info
validate_short_info(v) ==
    /\ Len(v) <= ShortInfoMaxLen
    /\ ~(\E i \in 1..Len(v) : v[i] = "\n" \/ v[i] = "\r")

\* GET /events
list_events == Answer("list_events", None, NoArgs, 200, events)

\* GET /admin/events
admin_list_events(key) ==
    IF ~require_admin(key) THEN Unauthorized("admin_list_events", key)
    ELSE Answer("admin_list_events", key, NoArgs, 200, events)

\* POST /admin/events
admin_create_event(key, payload) ==
    LET event == [id |-> NextId(events)] @@ payload
    IN  IF ~require_admin(key) THEN Unauthorized("admin_create_event", key)
        ELSE IF ~validate_short_info(payload.short_info)
        THEN Answer("admin_create_event", key, payload, 422, {})
        ELSE IF lock # 0 THEN Answer("admin_create_event", key, payload, 500, {})
        ELSE /\ Cardinality(events) < MaxEvents
             /\ NextId(events) \in EventIds
             /\ events' = events \cup {event}
             /\ Reply("admin_create_event", key, payload, 200, {event})
             /\ UNCHANGED <<places, reviews, review_photos, gallery_sections,
                            gallery_photos, feedback, media, lock, proc, now>>

\* PUT /admin/events/{event_id}
admin_update_event(key, event_id, payload) ==
    LET args == [event_id |-> event_id, payload |-> payload]
        found == ById(events, event_id)
    IN  IF ~require_admin(key) THEN Unauthorized("admin_update_event", key)
        ELSE IF ~validate_short_info(payload.short_info)
        THEN Answer("admin_update_event", key, args, 422, {})
        ELSE IF found = {} THEN Answer("admin_update_event", key, args, 404, {})
        ELSE IF lock # 0 THEN Answer("admin_update_event", key, args, 500, {})
        ELSE LET event == [id |-> event_id] @@ payload
             IN  /\ events' = (events \ found) \cup {event}
                 /\ Reply("admin_update_event", key, args, 200, {event})
                 /\ UNCHANGED <<places, reviews, review_photos, gallery_sections,
                                gallery_photos, feedback, media, lock, proc, now>>

\* DELETE /admin/events/{event_id}
admin_delete_event(key, event_id) ==
    LET args == [event_id |-> event_id]
        found == ById(events, event_id)
    IN  IF ~require_admin(key) THEN Unauthorized("admin_delete_event", key)
        ELSE IF found = {} THEN Answer("admin_delete_event", key, args, 404, {})
        ELSE IF lock # 0 THEN Answer("admin_delete_event", key, args, 500, {})
        ELSE /\ events' = events \ found
             /\ Reply("admin_delete_event", key, args, 200, {[id |-> event_id]})
             /\ UNCHANGED <<places, reviews, review_photos, gallery_sections,
                            gallery_photos, feedback, media, lock, proc, now>>

(***************************************************************************)
(* Gallery.                                                                *)
(***************************************************************************)
\* section_name: str = Form("Obshchie"): the default of a field not sent
DefaultSectionName == "Obshchie"
SectionNames == {DefaultSectionName, "Art"}
SectionIds == 1..(MaxSections + 1)
GalleryPhotoIds == 1..(MaxGalleryPhotos + 1)
\* the uploads of the gallery form: with a suffix, without one, without a name
GalleryFiles ==
    {[filename |-> <<"a", ".", "p">>, content |-> "A"],
     [filename |-> <<"b">>, content |-> "B"],
     [filename |-> <<>>, content |-> "A"]}
UploadForms == [file : GalleryFiles, section_name : {None, Some("Art")}]
FewUploadForms ==
    [file : {f \in GalleryFiles : f.content = "A"}, section_name : {None, Some("Art")}]
\* the URLs an admin attaches: an outside one, and one under the static mount
ExternalUrl == <<"https://example.org/pic.jpg">>
AdminUrls ==
    {ExternalUrl, StaticUrl(GALLERY_PHOTOS_DIR, GalleryFilename(1, 0, <<".", "p">>))}

SectionNameOf(form) ==
    IF form.section_name = None THEN DefaultSectionName ELSE form.section_name[1]

\* (mutant) a section without the photos relationship
NoGalleryPhotosOf(section_id) == {}

GalleryPhotosOf(section_id) == {ph \in gallery_photos : ph.section_id = section_id}

\* GallerySectionOut: the row with its photos
GallerySectionOut(s) ==
    [id |-> s.id, name |-> s.name,
     photos |-> {[id |-> ph.id, url |-> ph.url] : ph \in GalleryPhotosOf(s.id)}]

\* GET /gallery
get_gallery ==
    Answer("get_gallery", None, NoArgs, 200,
           {GallerySectionOut(s) : s \in gallery_sections})

\* (mutant) the last match instead of the first
LastSectionNamed(name) ==
    LET matches == {s \in gallery_sections : s.name = name}
    IN  IF matches = {} THEN None
        ELSE Some(CHOOSE s \in matches : s.id = Max({m.id : m \in matches}))

\* filter(GallerySection.name == section_name).first(): the row of the lowest id
FirstSectionNamed(name) ==
    LET matches == {s \in gallery_sections : s.name = name}
    IN  IF matches = {} THEN None
        ELSE Some(CHOOSE s \in matches : s.id = Min({m.id : m \in matches}))

\* gallery_sections rows that are or will be: committed, flushed, about to be flushed
SectionDemand ==
    Cardinality(gallery_sections)
    + Cardinality({p \in Procs : proc[p].pc = "up_flush"})
    + Cardinality({p \in Procs : proc[p].pc = "up_write" /\ proc[p].created})
GalleryPhotoDemand == Cardinality(gallery_photos) + Cardinality(PendingUploads)

\* POST /gallery/upload up to the section lookup
upload_gallery_photo(p, form) ==
    LET section_name == SectionNameOf(form)
        section == FirstSectionNamed(section_name)
    IN  /\ FreeSlot(p)
        /\ IF form.file.filename = <<>>
           THEN Answer("upload_gallery_photo", None, form, 400, {})
           ELSE /\ GalleryPhotoDemand < MaxGalleryPhotos
                /\ section = None => SectionDemand < MaxSections
                /\ proc' = [proc EXCEPT ![p] =
                       IF section = None
                       THEN [pc |-> "up_flush", req |-> form]
                       ELSE [pc |-> "up_write", req |-> form, section |-> section[1],
                             created |-> FALSE]]
                /\ resp' = NoResp
                /\ UNCHANGED <<db, media, lock, now>>

\* GallerySection(name=section_name); db.add(section); db.flush()
upload_gallery_flush(p) ==
    /\ proc[p].pc = "up_flush"
    /\ IF lock # 0
       THEN /\ proc' = [proc EXCEPT ![p] = Idle]
            /\ Reply("upload_gallery_photo", None, proc[p].req, 500, {})
            /\ UNCHANGED <<db, media, lock, now>>
       ELSE /\ NextId(gallery_sections) \in SectionIds
            /\ proc' = [proc EXCEPT ![p] =
                   [pc |-> "up_write", req |-> proc[p].req,
                    section |-> [id |-> NextId(gallery_sections),
                                 name |-> SectionNameOf(proc[p].req)],
                    created |-> TRUE]]
            /\ lock' = p
            /\ resp' = NoResp
            /\ UNCHANGED <<db, media, now>>

\* GalleryPhoto(section_id=section.id, url=url)
NewGalleryPhoto(section_id, url) ==
    [id |-> NextId(gallery_photos), section_id |-> section_id, url |-> url]

\* The rest of POST /gallery/upload: read the upload, write the file, add the photo,
\* commit, answer with the photo and the section as the database has them now.
upload_gallery_finish(p) ==
    /\ proc[p].pc = "up_write"
    /\ LET me == proc[p]
           ext == ExtOf(me.req.file.filename)
           filename == GalleryFilename(me.section.id, now, ext)
           photo == NewGalleryPhoto(me.section.id, StaticUrl(GALLERY_PHOTOS_DIR, filename))
           written == write_bytes(media, FilePath(GALLERY_PHOTOS_DIR, filename),
                                  me.req.file.content)
           released == IF lock = p THEN 0 ELSE lock
       IN  \/ \* the read or the write raises
              /\ proc' = [proc EXCEPT ![p] = Idle]
              /\ lock' = released
              /\ Reply("upload_gallery_photo", None, me.req, 500, {})
              /\ UNCHANGED <<db, media, now>>
           \/ /\ HasRoom(media, FilePath(GALLERY_PHOTOS_DIR, filename), MaxGalleryFiles)
              /\ photo.id \in GalleryPhotoIds
              /\ media' = written
              /\ proc' = [proc EXCEPT ![p] = Idle]
              /\ IF lock \notin {0, p}
                 THEN \* the INSERT of the commit finds the database locked
                      /\ Reply("upload_gallery_photo", None, me.req, 500, {})
                      /\ UNCHANGED <<db, lock, now>>
                 ELSE /\ gallery_sections' =
                             IF me.created THEN gallery_sections \cup {me.section}
                             ELSE gallery_sections
                      /\ gallery_photos' = gallery_photos \cup {photo}
                      /\ lock' = 0
                      /\ LET current == ById(gallery_sections', me.section.id)
                         IN  IF current = {}
                             THEN Reply("upload_gallery_photo", None, me.req, 500, {})
                             ELSE Reply("upload_gallery_photo", None, me.req, 200,
                                        {[id |-> photo.id, url |-> photo.url,
                                          section_id |-> s.id, section_name |-> s.name] :
                                             s \in current})
                      /\ UNCHANGED <<places, reviews, review_photos, events, feedback,
                                     now>>

\* POST /admin/gallery/sections
admin_create_gallery_section(key, name) ==
    LET args == [name |-> name]
        section == [id |-> NextId(gallery_sections), name |-> name]
    IN  IF ~require_admin(key) THEN Unauthorized("admin_create_gallery_section", key)
        ELSE IF lock # 0 THEN Answer("admin_create_gallery_section", key, args, 500, {})
        ELSE /\ SectionDemand < MaxSections
             /\ section.id \in SectionIds
             /\ gallery_sections' = gallery_sections \cup {section}
             /\ Reply("admin_create_gallery_section", key, args, 200,
                      {GallerySectionOut(section)})
             /\ UNCHANGED <<places, reviews, review_photos, events, gallery_photos,
                            feedback, media, lock, proc, now>>

\* POST /admin/gallery/photos
admin_add_gallery_photo(key, payload) ==
    LET photo == NewGalleryPhoto(payload.section_id, payload.url)
    IN  IF ~require_admin(key) THEN Unauthorized("admin_add_gallery_photo", key)
        ELSE IF ById(gallery_sections, payload.section_id) = {}
        THEN Answer("admin_add_gallery_photo", key, payload, 404, {})
        ELSE IF lock # 0 THEN Answer("admin_add_gallery_photo", key, payload, 500, {})
        ELSE /\ GalleryPhotoDemand < MaxGalleryPhotos
             /\ photo.id \in GalleryPhotoIds
             /\ gallery_photos' = gallery_photos \cup {photo}
             /\ Reply("admin_add_gallery_photo", key, payload, 200,
                      {[id |-> photo.id, url |-> photo.url]})
             /\ UNCHANGED <<places, reviews, review_photos, events, gallery_sections,
                            feedback, media, lock, proc, now>>

\* PUT /admin/gallery/sections/{section_id}
admin_rename_gallery_section(key, section_id, name) ==
    LET args == [section_id |-> section_id, name |-> name]
        found == ById(gallery_sections, section_id)
        section == [id |-> section_id, name |-> name]
    IN  IF ~require_admin(key) THEN Unauthorized("admin_rename_gallery_section", key)
        ELSE IF found = {} THEN Answer("admin_rename_gallery_section", key, args, 404, {})
        ELSE IF lock # 0 THEN Answer("admin_rename_gallery_section", key, args, 500, {})
        ELSE /\ gallery_sections' = (gallery_sections \ found) \cup {section}
             /\ Reply("admin_rename_gallery_section", key, args, 200,
                      {GallerySectionOut(section)})
             /\ UNCHANGED <<places, reviews, review_photos, events, gallery_photos,
                            feedback, media, lock, proc, now>>

\* DELETE /admin/gallery/sections/{section_id}: the section and, by the cascade of
\* its photos relationship, its photos
admin_delete_gallery_section(key, section_id) ==
    LET args == [section_id |-> section_id]
        found == ById(gallery_sections, section_id)
    IN  IF ~require_admin(key) THEN Unauthorized("admin_delete_gallery_section", key)
        ELSE IF found = {} THEN Answer("admin_delete_gallery_section", key, args, 404, {})
        ELSE IF lock # 0 THEN Answer("admin_delete_gallery_section", key, args, 500, {})
        ELSE /\ gallery_sections' = gallery_sections \ found
             /\ gallery_photos' = gallery_photos \ GalleryPhotosOf(section_id)
             /\ Reply("admin_delete_gallery_section", key, args, 200, {[id |-> section_id]})
             /\ UNCHANGED <<places, reviews, review_photos, events, feedback, media,
                            lock, proc, now>>

\* DELETE /admin/gallery/photos/{photo_id}
admin_delete_gallery_photo(key, photo_id) ==
    LET args == [photo_id |-> photo_id]
        found == ById(gallery_photos, photo_id)
    IN  IF ~require_admin(key) THEN Unauthorized("admin_delete_gallery_photo", key)
        ELSE IF found = {} THEN Answer("admin_delete_gallery_photo", key, args, 404, {})
        ELSE IF lock # 0 THEN Answer("admin_delete_gallery_photo", key, args, 500, {})
        ELSE /\ gallery_photos' = gallery_photos \ found
             /\ Reply("admin_delete_gallery_photo", key, args, 200, {[id |-> photo_id]})
             /\ UNCHANGED <<places, reviews, review_photos, events, gallery_sections,
                            feedback, media, lock, proc, now>>

(***************************************************************************)
(* Feedback.                                                               *)
(***************************************************************************)
FeedbackCreate == {[name |-> "Ann", contact |-> None, message |-> "hello"]}
FeedbackIds == 1..(MaxFeedback + 1)

\* (mutant) a message is born read
NewFeedbackRead(id, payload, ts) ==
    [id |-> id, is_read |-> TRUE, created_at |-> ts] @@ payload

\* Feedback(name=..., contact=..., message=..., is_read=False)
NewFeedback(id, payload, ts) ==
    [id |-> id, is_read |-> FALSE, created_at |-> ts] @@ payload

\* POST /feedback
create_feedback(payload) ==
    LET fb == NewFeedback(NextId(feedback), payload, now)
    IN  IF lock # 0 THEN Answer("create_feedback", None, payload, 500, {})
        ELSE /\ Cardinality(feedback) < MaxFeedback
             /\ feedback' = feedback \cup {fb}
             /\ Reply("create_feedback", None, payload, 201, {fb})
             /\ UNCHANGED <<places, reviews, review_photos, events, gallery_sections,
                            gallery_photos, media, lock, proc, now>>

\* GET /admin/feedback
admin_list_feedback(key) ==
    IF ~require_admin(key) THEN Unauthorized("admin_list_feedback", key)
    ELSE Answer("admin_list_feedback", key, NoArgs, 200, feedback)

\* POST /admin/feedback/{feedback_id}/mark_read
admin_mark_feedback_read(key, feedback_id) ==
    LET args == [feedback_id |-> feedback_id]
        found == ById(feedback, feedback_id)
    IN  IF ~require_admin(key) THEN Unauthorized("admin_mark_feedback_read", key)
        ELSE IF found = {} THEN Answer("admin_mark_feedback_read", key, args, 404, {})
        ELSE IF lock # 0 THEN Answer("admin_mark_feedback_read", key, args, 500, {})
        ELSE LET fb == CHOOSE f \in found : TRUE
                 read == [fb EXCEPT !.is_read = TRUE]
             IN  /\ feedback' = (feedback \ found) \cup {read}
                 /\ Reply("admin_mark_feedback_read", key, args, 200,
                          {[id |-> read.id, is_read |-> read.is_read]})
                 /\ UNCHANGED <<places, reviews, review_photos, events, gallery_sections,
                                gallery_photos, media, lock, proc, now>>

(***************************************************************************)
(* The requests of the public surface and of the admin surface.            *)
(***************************************************************************)
GalleryPhotoCreate == [section_id : SectionIds, url : AdminUrls]

\* the submissions served next to every other kind of request
FewReviewForms ==
    [place_id : PlaceIds, author_name : {None}, rating : {RatingMin - 1, RatingMax},
     text : Texts, files : {<<>>, <<Photo1, Photo2>>, Repeat(Photo1, MaxPhotos + 1)}]

\* room for one more row
Spare == Rows < MaxRows

ReviewRequests(forms) ==
    \/ Ready /\ \E p \in Procs, form \in forms : create_review(p, form)
    \/ Ready /\ \E p \in Procs : create_review_photo(p)
    \/ Ready /\ \E p \in Procs : create_review_commit(p)
    \/ Ready /\ \E place_id \in PlaceIds : list_reviews(place_id)
    \/ Ready /\ \E key \in Keys : admin_list_pending_reviews(key)
    \/ Ready /\ \E key \in Keys, review_id \in ReviewIds : admin_approve_review(key, review_id)

\* rows an upload adds: its photo, and its section when the name is a new one
UploadRows(form) == IF FirstSectionNamed(SectionNameOf(form)) = None THEN 2 ELSE 1

GalleryRequests(forms, urls) ==
    \/ Ready /\ get_gallery
    \/ Ready /\ \E p \in Procs, form \in forms : upload_gallery_photo(p, form)
    \/ Ready /\ \E p \in Procs : upload_gallery_flush(p)
    \/ Ready /\ \E p \in Procs : upload_gallery_finish(p)
    \/ Ready /\ \E key \in Keys, name \in SectionNames : admin_create_gallery_section(key, name)
    \/ Ready /\ \E key \in Keys, payload \in [section_id : SectionIds, url : urls] :
                  admin_add_gallery_photo(key, payload)
    \/ Ready /\ \E key \in Keys, section_id \in SectionIds, name \in SectionNames :
                  admin_rename_gallery_section(key, section_id, name)
    \/ Ready /\ \E key \in Keys, section_id \in SectionIds :
                  admin_delete_gallery_section(key, section_id)
    \/ Ready /\ \E key \in Keys, photo_id \in GalleryPhotoIds :
                  admin_delete_gallery_photo(key, photo_id)

\* Every request of the service, the store holding at most MaxRows rows.
Next ==
    \/ deliver
    \/ Tick
    \/ Ready /\ list_places
    \/ Ready /\ Spare /\ \E key \in Keys, payload \in PlaceCreate :
                           admin_create_place(key, payload)
    \/ Ready /\ Spare /\ \E p \in Procs, form \in FewReviewForms : create_review(p, form)
    \/ Ready /\ \E p \in Procs : create_review_photo(p)
    \/ Ready /\ \E p \in Procs : create_review_commit(p)
    \/ Ready /\ \E place_id \in PlaceIds : list_reviews(place_id)
    \/ Ready /\ \E key \in Keys : admin_list_pending_reviews(key)
    \/ Ready /\ \E key \in Keys, review_id \in ReviewIds : admin_approve_review(key, review_id)
    \/ Ready /\ list_events
    \/ Ready /\ \E key \in Keys : admin_list_events(key)
    \/ Ready /\ Spare /\ \E key \in Keys, payload \in EventCreate :
                           admin_create_event(key, payload)
    \/ Ready /\ \E key \in Keys, event_id \in EventIds, payload \in EventCreate :
                  admin_update_event(key, event_id, payload)
    \/ Ready /\ \E key \in Keys, event_id \in EventIds : admin_delete_event(key, event_id)
    \/ Ready /\ get_gallery
    \/ Ready /\ \E p \in Procs, form \in UploadForms :
                  Rows + UploadRows(form) <= MaxRows /\ upload_gallery_photo(p, form)
    \/ Ready /\ \E p \in Procs : upload_gallery_flush(p)
    \/ Ready /\ \E p \in Procs : upload_gallery_finish(p)
    \/ Ready /\ Spare /\ \E key \in Keys, name \in SectionNames :
                           admin_create_gallery_section(key, name)
    \/ Ready /\ Spare /\ \E key \in Keys, payload \in GalleryPhotoCreate :
                           admin_add_gallery_photo(key, payload)
    \/ Ready /\ \E key \in Keys, section_id \in SectionIds, name \in SectionNames :
                  admin_rename_gallery_section(key, section_id, name)
    \/ Ready /\ \E key \in Keys, section_id \in SectionIds :
                  admin_delete_gallery_section(key, section_id)
    \/ Ready /\ \E key \in Keys, photo_id \in GalleryPhotoIds :
                  admin_delete_gallery_photo(key, photo_id)
    \/ Ready /\ Spare /\ \E payload \in FeedbackCreate : create_feedback(payload)
    \/ Ready /\ \E key \in Keys : admin_list_feedback(key)
    \/ Ready /\ \E key \in Keys, feedback_id \in FeedbackIds :
                  admin_mark_feedback_read(key, feedback_id)

Spec == Init /\ [][Next]_vars

\* The review requests alone, over the places an admin creates.
NextReviews ==
    \/ deliver
    \/ Tick
    \/ Ready /\ list_places
    \/ Ready /\ \E key \in Keys, payload \in PlaceCreate : admin_create_place(key, payload)
    \/ ReviewRequests(ReviewForms)

SpecReviews == Init /\ [][NextReviews]_vars

\* The gallery requests alone.
NextGallery ==
    \/ deliver
    \/ Tick
    \/ GalleryRequests(FewUploadForms, {ExternalUrl})

SpecGallery == Init /\ [][NextGallery]_vars

\* The event requests alone.
NextEvents ==
    \/ deliver
    \/ Tick
    \/ Ready /\ list_events
    \/ Ready /\ \E key \in Keys : admin_list_events(key)
    \/ Ready /\ \E key \in Keys, payload \in EventCreate : admin_create_event(key, payload)
    \/ Ready /\ \E key \in Keys, event_id \in EventIds, payload \in EventCreate :
                  admin_update_event(key, event_id, payload)
    \/ Ready /\ \E key \in Keys, event_id \in EventIds : admin_delete_event(key, event_id)

SpecEvents == Init /\ [][NextEvents]_vars

\* messages with and without a contact
FeedbackForms ==
    FeedbackCreate \cup {[name |-> "Bob", contact |-> Some("bob@mail"), message |-> "hi"]}

\* The feedback requests alone.
NextFeedback ==
    \/ deliver
    \/ Tick
    \/ Ready /\ \E payload \in FeedbackForms : create_feedback(payload)
    \/ Ready /\ \E key \in Keys : admin_list_feedback(key)
    \/ Ready /\ \E key \in Keys, feedback_id \in FeedbackIds :
                  admin_mark_feedback_read(key, feedback_id)

SpecFeedback == Init /\ [][NextFeedback]_vars

\* uploads that differ in their bytes only, next to the others
ManyUploadForms ==
    UploadForms \cup
        [file : {[filename |-> <<"c", ".", "p">>, content |-> "C"]},
         section_name : {None, Some("Art")}]

\* The public gallery requests alone: every section is one an upload made.
NextUploads ==
    \/ deliver
    \/ Tick
    \/ Ready /\ get_gallery
    \/ Ready /\ \E p \in Procs, form \in ManyUploadForms : upload_gallery_photo(p, form)
    \/ Ready /\ \E p \in Procs : upload_gallery_flush(p)
    \/ Ready /\ \E p \in Procs : upload_gallery_finish(p)

SpecUploads == Init /\ [][NextUploads]_vars

(***************************************************************************)
(* Properties.                                                             *)
(***************************************************************************)
AdminOps ==
    {"admin_list_pending_reviews", "admin_approve_review", "admin_create_place",
     "admin_create_event", "admin_list_events", "admin_update_event",
     "admin_delete_event", "admin_create_gallery_section",
     "admin_rename_gallery_section", "admin_delete_gallery_section",
     "admin_add_gallery_photo", "admin_delete_gallery_photo", "admin_list_feedback",
     "admin_mark_feedback_read"}

Ids(rows) == {r.id : r \in rows}

\* C1: GET /reviews?place_id=P answers with exactly the committed reviews of place P
\* whose status is approved: no pending review, no review of another place, no
\* review a session has not committed; and an approved review stays a row of its
\* place with status approved, so every later call lists it.
C1_ListedIffApproved ==
    /\ [](resp.op = "list_reviews" =>
            /\ Ids(resp.out) \subseteq Ids(reviews)
            /\ \A r \in reviews :
                   r.id \in Ids(resp.out)
                       <=> (r.place_id = resp.args.place_id /\ r.status = approved))
    /\ [][\A r \in reviews : r.status = approved => r \in reviews']_vars

\* a call that lists an approved review while a pending one of the same place exists
C1_Witness ==
    /\ resp.op = "list_reviews"
    /\ resp.out # {}
    /\ \E r \in reviews : r.place_id = resp.args.place_id /\ r.status = pending

\* C2: an admin request whose X-Admin-Key is missing or is not the secret is
\* answered 401, whatever else it carries, and its step changes no table and no file.
C2_UnauthorizedChangesNothing ==
    /\ [](resp.op \in AdminOps /\ resp.key # Some(ADMIN_API_KEY) => resp.code = 401)
    /\ [][resp'.op \in AdminOps /\ resp'.key # Some(ADMIN_API_KEY)
              => db' = db /\ media' = media]_vars

\* an approve without the key, refused while the review it names waits for approval
C2_Witness ==
    /\ resp.op = "admin_approve_review"
    /\ resp.code = 401
    /\ resp.key = None
    /\ \E r \in reviews : r.status = pending

\* C3: the status of a review changes only in the step of a successful
\* admin_approve_review on it, only from pending to approved, and an approved
\* review never has another status afterwards.
C3_StatusOneWay ==
    [][\A r \in reviews : \A r2 \in reviews' :
           r2.id = r.id =>
               /\ r.status = approved => r2.status = approved
               /\ r2.status # r.status =>
                      /\ r.status = pending
                      /\ r2.status = approved
                      /\ resp'.op = "admin_approve_review"
                      /\ resp'.code = 200
                      /\ resp'.args.review_id = r.id]_vars

\* a successful approve, with the review approved
C3_Witness ==
    /\ resp.op = "admin_approve_review"
    /\ resp.code = 200
    /\ \E r \in reviews : r.id = resp.args.review_id /\ r.status = approved

\* C4: the review a successful POST /reviews has just committed is pending, in the
\* table and in the {id, status} returned, whatever the form held; so is the row a
\* submission holds before its commit.
C4_CreatedPending ==
    /\ \A r \in PendingReviews : r.status = pending
    /\ resp.op = "create_review" /\ resp.code = 201 =>
           /\ Cardinality(resp.out) = 1
           /\ \A o \in resp.out :
                  /\ o.status = pending
                  /\ \E r \in reviews : r.id = o.id /\ r.status = pending

\* a submission answered 201
C4_Witness == resp.op = "create_review" /\ resp.code = 201 /\ resp.args.files # <<>>

WellFormedButRating(form) ==
    /\ ById(places, form.place_id) # {}
    /\ form.text # ""
    /\ Len(form.files) <= MaxPhotos

\* C5: on an existing place, with a text and at most 5 photos, POST /reviews is
\* refused as invalid (422) exactly when the rating is outside 1..5, and that step
\* changes no table and no file; with a rating in 1..5 it answers 201 (or 500, when
\* the database is locked or a file cannot be stored); a 201 always carries a rating
\* in 1..5, and every review row, committed or not, has its rating in 1..5.
C5_RatingRange ==
    /\ [](\A r \in reviews \cup PendingReviews :
              RatingMin <= r.rating /\ r.rating <= RatingMax)
    /\ [](resp.op = "create_review" /\ resp.code = 201 =>
              resp.args.rating \in RatingMin..RatingMax)
    /\ [](resp.op = "create_review" /\ WellFormedButRating(resp.args) =>
              IF resp.args.rating \in RatingMin..RatingMax
              THEN resp.code \in {201, 500}
              ELSE resp.code = 422)
    /\ [][resp'.op = "create_review" /\ resp'.code = 422
              => db' = db /\ media' = media /\ proc' = proc]_vars

\* a submission with the highest rating and the most photos allowed, answered 201
C5_Witness ==
    /\ resp.op = "create_review"
    /\ resp.code = 201
    /\ resp.args.rating = RatingMax
    /\ Len(resp.args.files) = MaxPhotos

\* C6: POST /reviews with more than 5 files is always refused, and its step leaves
\* every table, every file and every session as they were; on an existing place,
\* with a valid rating and a text, the refusal is the 400 of the photo limit.
C6_TooManyPhotos ==
    [][resp'.op = "create_review" /\ Len(resp'.args.files) > MaxPhotos =>
           /\ resp'.code \in {400, 404, 422}
           /\ (/\ ById(places, resp'.args.place_id) # {}
               /\ resp'.args.rating \in RatingMin..RatingMax
               /\ resp'.args.text # "") => resp'.code = 400
           /\ db' = db
           /\ media' = media
           /\ proc' = proc]_vars

\* six files sent for an existing place with a valid rating and a text
C6_Witness ==
    /\ resp.op = "create_review"
    /\ resp.code = 400
    /\ Len(resp.args.files) = MaxPhotos + 1
    /\ ById(places, resp.args.place_id) # {}

\* C7: a submission commits its review and all its photo rows in one step or not at
\* all.  A submission that fails while storing a photo is answered 500 and commits
\* nothing; the row of a submission in flight is in no table; a photo row always
\* belongs to a committed review; a review becomes visible together with one photo
\* row for every file of its form, and its photo rows never change afterwards.
C7_ReviewAndPhotosAtomic ==
    /\ [](\A r \in PendingReviews : r.id \notin Ids(reviews) /\ PhotosOf(r.id) = {})
    /\ [](\A ph \in review_photos : ph.review_id \in Ids(reviews))
    /\ [][/\ \A r \in reviews : PhotosOf(r.id)' = PhotosOf(r.id)
          /\ \A r \in {n \in reviews' : n.id \notin Ids(reviews)} :
                 /\ resp'.op = "create_review"
                 /\ resp'.code = 201
                 /\ Cardinality(PhotosOf(r.id)') = Len(resp'.args.files)
          /\ resp'.op = "create_review" /\ resp'.code = 500 =>
                 reviews' = reviews /\ review_photos' = review_photos]_vars

\* a submission of two files that failed after its first file was stored
C7_Witness ==
    /\ resp.op = "create_review"
    /\ resp.code = 500
    /\ Len(resp.args.files) = 2
    /\ DOMAIN media # {}
    /\ reviews = {}
    /\ lock = 0

AllPhotoUrls ==
    {ph.url : ph \in review_photos \cup gallery_photos}
    \cup UNION {{proc[p].photos[i] : i \in 1..Len(proc[p].photos)} :
                   p \in {q \in Procs : proc[q].pc = "cr_photos"}}

\* C8 as the spec states it: the URL of every photo row, of a review or of the
\* gallery, committed or added to a session, is the URL of a file in the media store.
C8_EveryPhotoHasFile == \A url \in AllPhotoUrls : UrlHasFile(media, url)

\* C8, amended: the URL of every ReviewPhoto, committed or added to a session, and
\* of every GalleryPhoto row committed by POST /gallery/upload is the URL of a file
\* that is in the media store when the row is made, and no file is ever removed;
\* POST /admin/gallery/photos stores the URL it is given and touches no file.
C8_UploadedPhotoHasFile ==
    /\ [](\A url \in AllPhotoUrls \ {ph.url : ph \in gallery_photos} :
              UrlHasFile(media, url))
    /\ [][/\ DOMAIN media \subseteq DOMAIN media'
          /\ resp'.op = "upload_gallery_photo" =>
                 \A ph \in gallery_photos' \ gallery_photos : UrlHasFile(media', ph.url)
          /\ resp'.op = "admin_add_gallery_photo" =>
                 /\ media' = media
                 /\ \A ph \in gallery_photos' \ gallery_photos :
                        ph.url = resp'.args.url]_vars

\* an upload to the gallery answered 200, its photo row and its file both there
C8_Witness ==
    /\ resp.op = "upload_gallery_photo"
    /\ resp.code = 200
    /\ \A o \in resp.out :
           /\ \E ph \in gallery_photos : ph.id = o.id /\ ph.url = o.url
           /\ UrlHasFile(media, o.url)

\* a step of an admin request that carried the secret
Authorized == resp'.op \in AdminOps /\ resp'.key = Some(ADMIN_API_KEY)

\* C9 as the spec states it: a step that is not the step of an admin request with
\* the valid key changes no place, event, gallery section or gallery photo.
C9_OnlyAdminsManage ==
    [][~Authorized =>
           /\ places' = places
           /\ events' = events
           /\ gallery_sections' = gallery_sections
           /\ gallery_photos' = gallery_photos]_vars

\* C9, amended: a step that is not the step of an admin request with the valid key
\* changes no place and no event, and updates or deletes no gallery section and no
\* gallery photo; the one such step that changes the gallery is the commit of
\* POST /gallery/upload, which adds one photo and at most one section.
C9_PublicOnlyUploads ==
    [][~Authorized =>
           /\ places' = places
           /\ events' = events
           /\ gallery_sections \subseteq gallery_sections'
           /\ gallery_photos \subseteq gallery_photos'
           /\ <<gallery_sections', gallery_photos'>> # <<gallery_sections, gallery_photos>>
                  => /\ resp'.op = "upload_gallery_photo"
                     /\ Cardinality(gallery_photos' \ gallery_photos) = 1
                     /\ Cardinality(gallery_sections' \ gallery_sections) <= 1
                     /\ \A sec \in gallery_sections' \ gallery_sections :
                            sec.name = SectionNameOf(resp'.args)]_vars

\* a public upload that made its section, next to a place an admin made
C9_Witness ==
    /\ resp.op = "upload_gallery_photo"
    /\ resp.code = 200
    /\ places # {}
    /\ \A o \in resp.out : GalleryPhotosOf(o.section_id) = {[id |-> o.id,
                                                             section_id |-> o.section_id,
                                                             url |-> o.url]}

Uploading(p) == proc[p].pc \in {"up_flush", "up_write"}
SectionsNamed(name) == {sec \in gallery_sections : sec.name = name}

\* C10: POST /gallery/upload looks its section name up among the committed
\* sections.  When a section has that name, the upload takes the one of the lowest
\* id, makes no section, and its commit adds its photo to that section and leaves
\* the sections as they are; when none has it, the upload makes exactly one section
\* of that name, under a new id, and its commit adds that section and the photo in it.
C10_ReuseOrCreateSection ==
    [][\A p \in Procs :
           /\ ~Uploading(p) /\ Uploading(p)' =>
                  LET matches == SectionsNamed(SectionNameOf(proc'[p].req))
                  IN  IF matches = {}
                      THEN proc'[p].pc = "up_flush"
                      ELSE /\ proc'[p].pc = "up_write"
                           /\ ~proc'[p].created
                           /\ proc'[p].section \in matches
                           /\ \A m \in matches : proc'[p].section.id <= m.id
           /\ proc[p].pc = "up_flush" /\ proc'[p].pc = "up_write" =>
                  /\ proc'[p].created
                  /\ proc'[p].section.name = SectionNameOf(proc[p].req)
                  /\ proc'[p].section.id \notin Ids(gallery_sections)
           /\ Uploading(p) /\ ~Uploading(p)' /\ gallery_photos' # gallery_photos =>
                  /\ \E ph \in gallery_photos' :
                         /\ ph.section_id = proc[p].section.id
                         /\ gallery_photos' = gallery_photos \cup {ph}
                         /\ ph \notin gallery_photos
                  /\ gallery_sections' =
                         IF proc[p].created
                         THEN gallery_sections \cup {proc[p].section}
                         ELSE gallery_sections
                  /\ Cardinality(gallery_sections') =
                         Cardinality(gallery_sections) + (IF proc[p].created THEN 1 ELSE 0)
           /\ Uploading(p)' /\ proc'[p] # proc[p] =>
                  gallery_sections' = gallery_sections]_vars

\* an upload answered 200 whose name two sections have, its photo in the first
C10_Witness ==
    /\ resp.op = "upload_gallery_photo"
    /\ resp.code = 200
    /\ \A o \in resp.out :
           /\ o.section_name = SectionNameOf(resp.args)
           /\ \E sec \in gallery_sections :
                  sec.name = o.section_name /\ sec.id > o.section_id
           /\ \E ph \in gallery_photos : ph.id = o.id /\ ph.section_id = o.section_id

\* C11: the step of a successful DELETE /admin/gallery/sections/{id} removes the
\* section of that id and every photo whose section_id is that id, and nothing else:
\* no photo of the section remains, every other section and every photo of another
\* section is as it was.
C11_DeleteSectionCascades ==
    [][resp'.op = "admin_delete_gallery_section" /\ resp'.code = 200 =>
           LET section_id == resp'.args.section_id
           IN  /\ section_id \in Ids(gallery_sections)
               /\ \A ph \in gallery_photos' : ph.section_id # section_id
               /\ gallery_sections' = {s \in gallery_sections : s.id # section_id}
               /\ gallery_photos' =
                      {ph \in gallery_photos : ph.section_id # section_id}]_vars

\* section 1 deleted with its photo 1, section 2 and its photo 2 still there
C11_Witness ==
    /\ resp.op = "admin_delete_gallery_section"
    /\ resp.code = 200
    /\ resp.args.section_id = 1
    /\ Ids(gallery_sections) = {2}
    /\ \E ph \in gallery_photos : ph.id = 2 /\ ph.section_id = 2
    /\ Cardinality(gallery_photos) = 1

HasLineBreak(v) == \E i \in 1..Len(v) : v[i] \in {"\n", "\r"}
IsLineBreak(c) == c \in {"\n", "\r"}
IsNoLineBreak(c) == ~IsLineBreak(c)
\* the text without its carriage returns and line feeds
OneLine(v) == SelectSeq(v, IsNoLineBreak)
EventWrites == {"admin_create_event", "admin_update_event"}
EventPayload(r) == IF r.op = "admin_update_event" THEN r.args.payload ELSE r.args

\* C12: no stored event has a carriage return or a line feed in its short_info.
\* POST /admin/events and PUT /admin/events/{id} with the admin key refuse a payload
\* whose short_info has one as invalid (422), and that step changes no table and no
\* file; the payload whose short_info is the same text without the line breaks
\* passes the validation, and a payload that passes it is never refused as invalid:
\* the create stores it (200), the update stores it (200) or finds no event (404).
C12_ShortInfoOneLine ==
    /\ [](\A e \in events : ~HasLineBreak(e.short_info))
    /\ [](\A payload \in EventCreate :
              validate_short_info([payload EXCEPT
                  !.short_info = OneLine(payload.short_info)].short_info))
    /\ [](resp.op \in EventWrites /\ resp.key = Some(ADMIN_API_KEY) =>
              IF HasLineBreak(EventPayload(resp).short_info)
              THEN resp.code = 422
              ELSE /\ resp.code \in {200, 404, 500}
                   /\ resp.code = 200 =>
                          \E e \in events :
                              e.short_info = EventPayload(resp).short_info)
    /\ [][resp'.op \in EventWrites /\ resp'.code = 422 =>
              db' = db /\ media' = media]_vars

\* an update refused for its line break, the event holding the same text in one line
C12_Witness ==
    /\ resp.op = "admin_update_event"
    /\ resp.code = 422
    /\ resp.key = Some(ADMIN_API_KEY)
    /\ HasLineBreak(resp.args.payload.short_info)
    /\ \E e \in events :
           /\ e.id = resp.args.event_id
           /\ e.short_info = OneLine(resp.args.payload.short_info)

\* C13: POST /reviews with an empty text is refused as invalid (422) whatever the
\* place, the rating and the files are, and its step changes no table, no file and
\* no session; no review row, committed or not, has an empty text.
C13_EmptyTextRejected ==
    /\ [](\A r \in reviews \cup PendingReviews : r.text # "")
    /\ [][resp'.op = "create_review" /\ resp'.args.text = "" =>
              /\ resp'.code = 422
              /\ db' = db
              /\ media' = media
              /\ proc' = proc]_vars

\* an empty text sent for an existing place with a valid rating and two photos
C13_Witness ==
    /\ resp.op = "create_review"
    /\ resp.code = 422
    /\ resp.args.text = ""
    /\ ById(places, resp.args.place_id) # {}
    /\ resp.args.rating = RatingMin
    /\ Len(resp.args.files) = 2

\* C14: POST /reviews with a valid rating and a text for a place_id that no place
\* has is answered 404, and its step changes no table, no file and no session;
\* every review row, committed or not, has the place_id of a place in the table.
C14_UnknownPlaceNotFound ==
    /\ [](\A r \in reviews \cup PendingReviews : r.place_id \in Ids(places))
    /\ [][resp'.op = "create_review" /\ resp'.args.place_id \notin Ids(places) =>
              /\ resp'.code \in {404, 422}
              /\ (RatingValid(resp'.args.rating) /\ resp'.args.text # "")
                     => resp'.code = 404
              /\ db' = db
              /\ media' = media
              /\ proc' = proc]_vars
    /\ [][places \subseteq places']_vars

\* a well-formed submission for place 2 while only place 1 exists
C14_Witness ==
    /\ resp.op = "create_review"
    /\ resp.code = 404
    /\ resp.args.place_id \notin Ids(places)
    /\ places # {}
    /\ Len(resp.args.files) = 1

\* C15: POST /admin/reviews/{id}/approve with the admin key is answered 404 when no
\* review has the id, and that step changes nothing.  On a review in the table it is
\* never refused: it answers 200 with status approved, and the review is approved
\* afterwards, whether it was pending or approved before (the only other answer is
\* the 500 of a database locked by a submission in flight, which changes nothing).
\* Approving an approved review leaves every table as it was, so approving twice
\* gives the state of approving once.
C15_ApproveIdempotent ==
    /\ [](\A r \in reviews : Approve(Approve(r)) = Approve(r))
    /\ [][resp'.op = "admin_approve_review" /\ resp'.key = Some(ADMIN_API_KEY) =>
              LET review_id == resp'.args.review_id
                  found == {r \in reviews : r.id = review_id}
              IN  IF found = {}
                  THEN resp'.code = 404 /\ db' = db /\ media' = media
                  ELSE /\ resp'.code \in {200, 500}
                       /\ resp'.code = 500 => lock # 0 /\ db' = db /\ media' = media
                       /\ resp'.code = 200 =>
                              /\ reviews' = {IF r.id = review_id
                                             THEN [r EXCEPT !.status = approved]
                                             ELSE r : r \in reviews}
                              /\ resp'.out = {[id |-> review_id, status |-> approved]}
                              /\ (\A r \in found : r.status = approved) => db' = db
                              /\ media' = media]_vars

\* an approval answered 200 while another review is still pending
C15_Witness ==
    /\ resp.op = "admin_approve_review"
    /\ resp.code = 200
    /\ \E r \in reviews : r.id = resp.args.review_id /\ r.status = approved
    /\ \E r \in reviews : r.id # resp.args.review_id /\ r.status = pending

NotFoundCase(r) ==
    \/ r.op = "create_review" /\ r.args.place_id \notin Ids(places)
    \/ r.op = "admin_approve_review" /\ r.args.review_id \notin Ids(reviews)
    \/ r.op \in {"admin_update_event", "admin_delete_event"}
           /\ r.args.event_id \notin Ids(events)
    \/ r.op \in {"admin_add_gallery_photo", "admin_rename_gallery_section",
                 "admin_delete_gallery_section"}
           /\ r.args.section_id \notin Ids(gallery_sections)
    \/ r.op = "admin_delete_gallery_photo" /\ r.args.photo_id \notin Ids(gallery_photos)
    \/ r.op = "admin_mark_feedback_read" /\ r.args.feedback_id \notin Ids(feedback)

\* the request failed a declared constraint of a parameter or of its payload
DeclaredInvalid(r) ==
    \/ r.op = "create_review"
           /\ (r.args.rating \notin RatingMin..RatingMax \/ r.args.text = "")
    \/ r.op \in EventWrites /\ HasLineBreak(EventPayload(r).short_info)

\* the request failed a check written in its handler
HandlerInvalid(r) ==
    \/ r.op = "create_review" /\ Len(r.args.files) > MaxPhotos
    \/ r.op = "upload_gallery_photo" /\ r.args.file.filename = <<>>

\* C17 as the spec states it: a request refused as invalid (a rating out of bounds,
\* more than 5 photos, a multi-line short_info) is answered 400.
C17_ValidationErrorsAre400 ==
    resp.code \in {400, 422} /\ (DeclaredInvalid(resp) \/ HandlerInvalid(resp))
        => resp.code = 400

\* C17, amended: a rejected request is answered with exactly one of 401, 422, 404
\* and 400, by its error kind.  An admin request without the valid key is answered
\* 401 and only such a request is; a rating out of bounds, an empty text and a
\* multi-line short_info are answered 422 and nothing else is; an id that names no
\* row is answered 404 and nothing else is; more than 5 photos and an upload without
\* a filename are answered 400 and nothing else is.  422 comes before 404, and 404
\* before 400.
C17_RejectionByKind ==
    [][resp'.op # "-" =>
           IF resp'.op \in AdminOps /\ resp'.key # Some(ADMIN_API_KEY)
           THEN resp'.code = 401
           ELSE /\ resp'.code # 401
                /\ DeclaredInvalid(resp') <=> resp'.code = 422
                /\ ~DeclaredInvalid(resp') =>
                       /\ NotFoundCase(resp') <=> resp'.code = 404
                       /\ ~NotFoundCase(resp') =>
                              (HandlerInvalid(resp') <=> resp'.code = 400)]_vars

\* a rating of 0 with six photos for an existing place: 422, not the 400 of the photos
C17_Witness ==
    /\ resp.op = "create_review"
    /\ resp.code = 422
    /\ resp.args.rating = RatingMin - 1
    /\ resp.args.text # ""
    /\ Len(resp.args.files) = MaxPhotos + 1
    /\ resp.args.place_id \in Ids(places)

\* C18: the lookup by name and the creation of the section are separate steps of an
\* upload, and the creation does not look again.  An upload whose lookup found no
\* section of its name makes one at its flush whatever sections have the name by
\* then, under a key no section has, and its commit adds that section whatever
\* sections have the name by then: the number of sections of the name grows by one.
\* Uploads alone therefore reach a state with two sections of one name (C18_Witness).
C18_LookupNotAtomic ==
    [][\A p \in Procs :
           /\ proc[p].pc = "up_flush" /\ proc'[p].pc = "up_write" =>
                  /\ proc'[p].created
                  /\ proc'[p].section.name = SectionNameOf(proc[p].req)
                  /\ proc'[p].section.id \notin Ids(gallery_sections)
           /\ (/\ proc[p].pc = "up_write"
               /\ proc[p].created
               /\ proc'[p].pc = "idle"
               /\ resp'.code = 200) =>
                  /\ proc[p].section \notin gallery_sections
                  /\ gallery_sections' = gallery_sections \cup {proc[p].section}
                  /\ Cardinality({s \in gallery_sections' :
                                      s.name = proc[p].section.name}) =
                         Cardinality(SectionsNamed(proc[p].section.name)) + 1]_vars

\* two uploads of one new name, both answered: two sections of that name, each
\* holding one of the two photos
C18_Witness ==
    /\ resp.op = "upload_gallery_photo"
    /\ resp.code = 200
    /\ Cardinality(SectionsNamed(SectionNameOf(resp.args))) = 2
    /\ \A sec \in gallery_sections : Cardinality(GalleryPhotosOf(sec.id)) = 1

\* C19: the section_id of every gallery photo in the table is the id of a section
\* in the table.
C19_PhotoSectionExists ==
    \A ph \in gallery_photos : ph.section_id \in Ids(gallery_sections)

\* C20: no step replaces or removes a file of the media store, and no two photo
\* rows made by uploads, of reviews or of the gallery, have the same URL.
C20_MediaAppendOnly ==
    /\ [](\A a, b \in review_photos : a # b => a.url # b.url)
    /\ [](\A a, b \in gallery_photos : a # b => a.url # b.url)
    /\ [][\A path \in DOMAIN media :
              path \in DOMAIN media' /\ media'[path] = media[path]]_vars

\* the fields of a review that its author supplied or its INSERT set
Content(r) ==
    [place_id |-> r.place_id, author_name |-> r.author_name, rating |-> r.rating,
     text |-> r.text, created_at |-> r.created_at]

\* C21: the step of a successful approval changes the status of the review it names
\* and nothing else: that review keeps its place, author name, rating, text, creation
\* time and photos, every other review is the row it was, no review appears or
\* disappears, and every other table and every file is unchanged.  In every step of
\* every operation a review in the table stays in the table with the same content.
C21_ApproveChangesStatusOnly ==
    [][/\ \A r \in reviews :
              \E r2 \in reviews' : r2.id = r.id /\ Content(r2) = Content(r)
       /\ resp'.op = "admin_approve_review" /\ resp'.code = 200 =>
              /\ Ids(reviews') = Ids(reviews)
              /\ Cardinality(reviews') = Cardinality(reviews)
              /\ \A r \in reviews :
                     IF r.id = resp'.args.review_id
                     THEN \E r2 \in reviews' :
                              /\ r2.id = r.id
                              /\ r2.status = approved
                              /\ Content(r2) = Content(r)
                              /\ PhotosOf(r2.id)' = PhotosOf(r.id)
                     ELSE r \in reviews'
              /\ <<places, review_photos, events, gallery_sections, gallery_photos,
                   feedback, media, lock, proc, now>>'
                     = <<places, review_photos, events, gallery_sections,
                         gallery_photos, feedback, media, lock, proc, now>>]_vars

\* a review with a photo and an author's text approved next to a pending review
\* that has a photo as well
C21_Witness ==
    /\ resp.op = "admin_approve_review"
    /\ resp.code = 200
    /\ \E r \in reviews :
           /\ r.id = resp.args.review_id
           /\ r.status = approved
           /\ r.text # ""
           /\ PhotosOf(r.id) # {}
    /\ \E r \in reviews :
           r.id # resp.args.review_id /\ r.status = pending /\ PhotosOf(r.id) # {}

====
